---- MODULE Spec2Model ----
(***************************************************************************)
(* Model of models/cash_transfer.py: the cash.transfer record, the journal *)
(* resolvers and action_validate with the ledger moves it posts.           *)
(*                                                                         *)
(* Record identifiers are positive integers; 0 is the empty recordset      *)
(* (Journal.browse(False), an unset Many2one), which is falsy in the code. *)
(***************************************************************************)
EXTENDS Integers, Sequences, FiniteSets, TLC

(***************************************************************************)
(* Bounds of the model.                                                    *)
(***************************************************************************)
\* largest amount a transfer carries (amounts range over -1 .. MaxAmount)
MaxAmount == 1
\* largest number of ledger moves the ledger holds
MaxMoves == 2

(***************************************************************************)
(* Master data read by the code (res.company, operating.unit,              *)
(* account.journal).  Names and codes are sequences of characters so that  *)
(* the ilike / = comparisons of the search domains are computed.           *)
(***************************************************************************)
Companies == {1, 2, 3}

\* functional currency of each company (res.company.currency_id)
CompanyCurrency(c) == IF c = 1 THEN 1 ELSE 2

Currencies == {1, 2}

Dates == {1, 2}

OperatingUnits ==
    { [id |-> 1, company |-> 1, name |-> <<"S", "u", "r">>,
       code |-> <<"S", "U", "R">>],
      [id |-> 2, company |-> 1, name |-> <<"C", "a", "j", "a", " ", "c", "e", "n", "t", "r", "a", "l">>,
       code |-> <<"C", "C">>],
      [id |-> 3, company |-> 2, name |-> <<"C", "e", "n", "t", "r", "o">>,
       code |-> <<"c", "e", "n", "t", "r", "a", "l">>],
      [id |-> 4, company |-> 3, name |-> <<"S", "e", "d", "e">>,
       code |-> <<"C", "E", "N", "T", "R", "A", "L">>] }

\* account.journal rows.  sortkey is the row's position in the default order
\* of account.journal, which a search without order= uses.
Journals ==
    { [id |-> 1, company |-> 1, type |-> "cash", operating_unit_id |-> 1, sortkey |-> 3,
       default_account_id |-> 11, payment_debit_account_id |-> 12, payment_credit_account_id |-> 0],
      [id |-> 2, company |-> 1, type |-> "cash", operating_unit_id |-> 2, sortkey |-> 2,
       default_account_id |-> 0, payment_debit_account_id |-> 21, payment_credit_account_id |-> 22],
      [id |-> 3, company |-> 1, type |-> "cash", operating_unit_id |-> 0, sortkey |-> 4,
       default_account_id |-> 0, payment_debit_account_id |-> 0, payment_credit_account_id |-> 0],
      [id |-> 4, company |-> 1, type |-> "bank", operating_unit_id |-> 2, sortkey |-> 1,
       default_account_id |-> 41, payment_debit_account_id |-> 0, payment_credit_account_id |-> 0],
      [id |-> 5, company |-> 2, type |-> "cash", operating_unit_id |-> 3, sortkey |-> 5,
       default_account_id |-> 0, payment_debit_account_id |-> 0, payment_credit_account_id |-> 51],
      [id |-> 6, company |-> 3, type |-> "cash", operating_unit_id |-> 4, sortkey |-> 6,
       default_account_id |-> 61, payment_debit_account_id |-> 0, payment_credit_account_id |-> 0] }

JournalIds == {j.id : j \in Journals}

\* Journal.browse(id) for an existing id
Journal(id) == CHOOSE j \in Journals : j.id = id

\* journal.company_id / operating_unit_id of a possibly empty recordset
JournalCompany(id) == IF id \in JournalIds THEN Journal(id).company ELSE 0

JournalOU(id) == IF id \in JournalIds THEN Journal(id).operating_unit_id ELSE 0

JournalType(id) == IF id \in JournalIds THEN Journal(id).type ELSE "none"

(***************************************************************************)
(* String comparison of the search domains.                                *)
(***************************************************************************)
LowerChar(ch) ==
    CASE ch = "C" -> "c" [] ch = "E" -> "e" [] ch = "N" -> "n" [] ch = "T" -> "t"
      [] ch = "R" -> "r" [] ch = "A" -> "a" [] ch = "L" -> "l" [] ch = "S" -> "s"
      [] ch = "U" -> "u" [] ch = "D" -> "d" [] OTHER -> ch

Lower(s) == [i \in 1..Len(s) |-> LowerChar(s[i])]

\* sub occurs in s as a contiguous substring
Contains(s, sub) ==
    \E i \in 0..(Len(s) - Len(sub)) : SubSeq(s, i + 1, i + Len(sub)) = sub

\* ('name', 'ilike', pattern): case-insensitive containment
Ilike(s, pattern) == Contains(Lower(s), Lower(pattern))

CentralName == <<"C", "e", "n", "t", "r", "a", "l">>

CentralCode == <<"C", "E", "N", "T", "R", "A", "L">>

(***************************************************************************)
(* State.                                                                  *)
(***************************************************************************)
VARIABLES
    recs,           \* cash.transfer rows: id -> record, or NoRec while not created
    moves,          \* account.move rows of the ledger, in creation order
    central_param,  \* ir.config_parameter cash_transfer.central_journal_id
    user_ou,        \* env.user.default_operating_unit_id (0: unset or no such attribute)
    call            \* the last action_validate call and how it ended

vars == <<recs, moves, central_param, user_ou, call>>

RecIds == {1, 2}

NoRec == [state |-> "absent"]

NoCall == [op |-> "none"]

\* stored values of the configuration parameter: unset, or a string of digits
ParamUnset == [present |-> FALSE, text |-> <<>>]

ParamText(t) == [present |-> TRUE, text |-> t]

ParamValues ==
    { ParamUnset, ParamText(<<>>), ParamText(<<"0">>), ParamText(<<"1">>),
      ParamText(<<"4">>), ParamText(<<"5">>), ParamText(<<"9">>) }

(***************************************************************************)
(* JournalResolver.                                                        *)
(***************************************************************************)
DigitValue(ch) ==
    CASE ch = "0" -> 0 [] ch = "1" -> 1 [] ch = "2" -> 2 [] ch = "3" -> 3 [] ch = "4" -> 4
      [] ch = "5" -> 5 [] ch = "6" -> 6 [] ch = "7" -> 7 [] ch = "8" -> 8 [] ch = "9" -> 9

RECURSIVE ParseInt(_)
\* int(text) of a string of decimal digits
ParseInt(t) ==
    IF Len(t) = 0 THEN 0
    ELSE 10 * ParseInt(SubSeq(t, 1, Len(t) - 1)) + DigitValue(t[Len(t)])

\* int(ICP.get_param('cash_transfer.central_journal_id', default='0') or 0)
CentralId(param) ==
    LET text == IF param.present THEN param.text ELSE <<"0">>
    IN  IF Len(text) = 0 THEN 0 ELSE ParseInt(text)

\* search(..., limit=1, order='id asc'): the id of the row of lowest id, 0 if none
FirstById(rows) ==
    IF rows = {} THEN 0
    ELSE (CHOOSE r \in rows : \A q \in rows : r.id <= q.id).id

\* search(..., limit=1) on account.journal: the id of the first row in the
\* default order of account.journal, 0 if none
FirstBySortkey(rows) ==
    IF rows = {} THEN 0
    ELSE (CHOOSE r \in rows : \A q \in rows : r.sortkey <= q.sortkey).id

\* self._get_user_default_ou(): getattr(user, 'default_operating_unit_id', False)
GetUserDefaultOU == user_ou

\* _find_cash_journal_by_ou without order='id asc' (the default order decides)
FindCashJournalByOU_DefaultOrder(company, ou) ==
    LET found == { j \in Journals :
                     /\ j.type = "cash"
                     /\ j.company = company
                     /\ (ou # 0 => j.operating_unit_id = ou) }
    IN  FirstBySortkey(found)

\* self._find_cash_journal_by_ou(company, ou)
FindCashJournalByOU(company, ou) ==
    LET found == { j \in Journals :
                     /\ j.type = "cash"
                     /\ j.company = company
                     /\ (ou # 0 => j.operating_unit_id = ou) }
    IN  FirstById(found)

\* _get_central_cash_journal that tries the name/code fallback first
GetCentralCashJournal_FallbackFirst(company, param) ==
    LET central_id == CentralId(param)
        configured ==
            IF /\ central_id # 0
               /\ central_id \in JournalIds
               /\ Journal(central_id).company = company
               /\ Journal(central_id).type = "cash"
            THEN central_id ELSE 0
        central_ou ==
            FirstById({ u \in OperatingUnits :
                          /\ u.company = company
                          /\ (Ilike(u.name, CentralName) \/ u.code = CentralCode) })
        fallback ==
            IF central_ou # 0
            THEN FirstBySortkey({ j \in Journals :
                                    /\ j.type = "cash"
                                    /\ j.company = company
                                    /\ j.operating_unit_id = central_ou })
            ELSE 0
    IN  IF fallback # 0 THEN fallback ELSE configured

\* _get_central_cash_journal without the j.type == 'cash' test of the configured journal
GetCentralCashJournal_TypeUnchecked(company, param) ==
    LET central_id == CentralId(param)
        configured ==
            IF /\ central_id # 0
               /\ central_id \in JournalIds
               /\ Journal(central_id).company = company
            THEN central_id ELSE 0
        central_ou ==
            FirstById({ u \in OperatingUnits :
                          /\ u.company = company
                          /\ (Ilike(u.name, CentralName) \/ u.code = CentralCode) })
        fallback ==
            IF central_ou # 0
            THEN FirstBySortkey({ j \in Journals :
                                    /\ j.type = "cash"
                                    /\ j.company = company
                                    /\ j.operating_unit_id = central_ou })
            ELSE 0
    IN  IF configured # 0 THEN configured ELSE fallback

\* self._get_central_cash_journal(company).  No company of OperatingUnits has
\* two units matching the fallback's domain, so the order of that search
\* does not decide which unit it returns.
GetCentralCashJournal(company, param) ==
    LET central_id == CentralId(param)
        configured ==
            IF /\ central_id # 0
               /\ central_id \in JournalIds
               /\ Journal(central_id).company = company
               /\ Journal(central_id).type = "cash"
            THEN central_id ELSE 0
        central_ou ==
            FirstById({ u \in OperatingUnits :
                          /\ u.company = company
                          /\ (Ilike(u.name, CentralName) \/ u.code = CentralCode) })
        fallback ==
            IF central_ou # 0
            THEN FirstBySortkey({ j \in Journals :
                                    /\ j.type = "cash"
                                    /\ j.company = company
                                    /\ j.operating_unit_id = central_ou })
            ELSE 0
    IN  IF configured # 0 THEN configured ELSE fallback

\* _main_account that prefers the payment-debit account to the default one
MainAccount_PaymentDebitFirst(journal) ==
    IF journal = 0 THEN 0
    ELSE LET j == Journal(journal)
         IN  IF j.payment_debit_account_id # 0 THEN j.payment_debit_account_id
             ELSE IF j.default_account_id # 0 THEN j.default_account_id
             ELSE j.payment_credit_account_id

\* self._main_account(journal)
MainAccount(journal) ==
    IF journal = 0 THEN 0
    ELSE LET j == Journal(journal)
         IN  IF j.default_account_id # 0 THEN j.default_account_id
             ELSE IF j.payment_debit_account_id # 0 THEN j.payment_debit_account_id
             ELSE j.payment_credit_account_id

(***************************************************************************)
(* TransferValidator/Poster: action_validate.                              *)
(***************************************************************************)
NoError == "none"

PreconditionErrors ==
    { "InvalidAmount", "MissingJournal", "SameJournal",
      "DestinationMustBeCentral", "MissingJournalAccount" }

\* what the ledger engine does with one request: accept it, refuse
\* account.move.create, or refuse move.action_post
LedgerOutcomes == {"ok", "create_fails", "post_fails"}

\* CheckError with the main-account check moved before the central check
CheckError_AccountsBeforeCentral(rec, param) ==
    LET central  == GetCentralCashJournal(rec.company_id, param)
        acc_from == MainAccount(rec.journal_id_from)
        acc_to   == MainAccount(rec.journal_id_to)
    IN  IF rec.amount <= 0 THEN "InvalidAmount"
        ELSE IF rec.journal_id_from = 0 \/ rec.journal_id_to = 0 THEN "MissingJournal"
        ELSE IF rec.journal_id_from = rec.journal_id_to THEN "SameJournal"
        ELSE IF acc_from = 0 \/ acc_to = 0 THEN "MissingJournalAccount"
        ELSE IF central # 0 /\ rec.journal_id_to # central THEN "DestinationMustBeCentral"
        ELSE NoError

\* CheckError without the central check
CheckError_NoCentralCheck(rec, param) ==
    LET acc_from == MainAccount(rec.journal_id_from)
        acc_to   == MainAccount(rec.journal_id_to)
    IN  IF rec.amount <= 0 THEN "InvalidAmount"
        ELSE IF rec.journal_id_from = 0 \/ rec.journal_id_to = 0 THEN "MissingJournal"
        ELSE IF rec.journal_id_from = rec.journal_id_to THEN "SameJournal"
        ELSE IF acc_from = 0 \/ acc_to = 0 THEN "MissingJournalAccount"
        ELSE NoError

\* CheckError without the comparison of source and destination
CheckError_NoSameJournalCheck(rec, param) ==
    LET central  == GetCentralCashJournal(rec.company_id, param)
        acc_from == MainAccount(rec.journal_id_from)
        acc_to   == MainAccount(rec.journal_id_to)
    IN  IF rec.amount <= 0 THEN "InvalidAmount"
        ELSE IF rec.journal_id_from = 0 \/ rec.journal_id_to = 0 THEN "MissingJournal"
        ELSE IF central # 0 /\ rec.journal_id_to # central THEN "DestinationMustBeCentral"
        ELSE IF acc_from = 0 \/ acc_to = 0 THEN "MissingJournalAccount"
        ELSE NoError

\* CheckError with amount < 0 in place of amount <= 0
CheckError_ZeroAmountPasses(rec, param) ==
    LET central  == GetCentralCashJournal(rec.company_id, param)
        acc_from == MainAccount(rec.journal_id_from)
        acc_to   == MainAccount(rec.journal_id_to)
    IN  IF rec.amount < 0 THEN "InvalidAmount"
        ELSE IF rec.journal_id_from = 0 \/ rec.journal_id_to = 0 THEN "MissingJournal"
        ELSE IF rec.journal_id_from = rec.journal_id_to THEN "SameJournal"
        ELSE IF central # 0 /\ rec.journal_id_to # central THEN "DestinationMustBeCentral"
        ELSE IF acc_from = 0 \/ acc_to = 0 THEN "MissingJournalAccount"
        ELSE NoError

\* the UserError raised by the checks of one record, NoError if none is
CheckError(rec, param) ==
    LET central  == GetCentralCashJournal(rec.company_id, param)
        acc_from == MainAccount(rec.journal_id_from)
        acc_to   == MainAccount(rec.journal_id_to)
    IN  IF rec.amount <= 0 THEN "InvalidAmount"
        ELSE IF rec.journal_id_from = 0 \/ rec.journal_id_to = 0 THEN "MissingJournal"
        ELSE IF rec.journal_id_from = rec.journal_id_to THEN "SameJournal"
        ELSE IF central # 0 /\ rec.journal_id_to # central THEN "DestinationMustBeCentral"
        ELSE IF acc_from = 0 \/ acc_to = 0 THEN "MissingJournalAccount"
        ELSE NoError

\* line_in of the move
LineIn(rec) ==
    [ name_journal |-> rec.journal_id_to,
      account_id   |-> MainAccount(rec.journal_id_to),
      debit        |-> rec.amount,
      credit       |-> 0,
      currency_id  |-> IF rec.currency_id # CompanyCurrency(rec.company_id)
                       THEN rec.currency_id ELSE CompanyCurrency(rec.company_id),
      company_id   |-> rec.company_id ]

\* LineOut with the amount in debit instead of credit
LineOut_AmountInDebit(rec) ==
    [ name_journal |-> rec.journal_id_from,
      account_id   |-> MainAccount(rec.journal_id_from),
      debit        |-> rec.amount,
      credit       |-> 0,
      currency_id  |-> IF rec.currency_id # CompanyCurrency(rec.company_id)
                       THEN rec.currency_id ELSE CompanyCurrency(rec.company_id),
      company_id   |-> rec.company_id ]

\* line_out of the move
LineOut(rec) ==
    [ name_journal |-> rec.journal_id_from,
      account_id   |-> MainAccount(rec.journal_id_from),
      debit        |-> 0,
      credit       |-> rec.amount,
      currency_id  |-> IF rec.currency_id # CompanyCurrency(rec.company_id)
                       THEN rec.currency_id ELSE CompanyCurrency(rec.company_id),
      company_id   |-> rec.company_id ]

\* move_vals of record id; the move is created in state draft
MoveVals(id, rec) ==
    [ date       |-> rec.date,
      journal_id |-> rec.journal_id_to,
      ref        |-> id,
      line_ids   |-> <<LineIn(rec), LineOut(rec)>>,
      company_id |-> rec.company_id,
      state      |-> "draft" ]

\* One iteration of the loop of action_validate on record id, in the
\* transaction state st = [recs, moves]: the error raised (NoError if none)
\* and the transaction state where the iteration stopped.
ValidateRec(st, id, param, ledger) ==
    LET rec     == st.recs[id]
        err     == CheckError(rec, param)
        created == Append(st.moves, MoveVals(id, rec))
        posted  == [created EXCEPT ![Len(created)].state = "posted"]
    IN  IF err # NoError THEN [err |-> err, st |-> st]
        ELSE IF ledger = "create_fails"
             THEN [err |-> "LedgerPostingFailed", st |-> st]
        ELSE IF ledger = "post_fails"
             THEN [err |-> "LedgerPostingFailed", st |-> [st EXCEPT !.moves = created]]
        ELSE [err |-> NoError,
              st  |-> [recs  |-> [st.recs EXCEPT ![id].state = "validated"],
                       moves |-> posted]]

RECURSIVE ValidateLoop(_, _, _, _, _)
\* for rec in self: the records of batch from position i on, stopping at the
\* first exception; at is the position of the record that raised (0 if none)
ValidateLoop(st, batch, i, param, ledger) ==
    IF i > Len(batch) THEN [err |-> NoError, at |-> 0, st |-> st]
    ELSE LET r == ValidateRec(st, batch[i], param, ledger[i])
         IN  IF r.err # NoError THEN [err |-> r.err, at |-> i, st |-> r.st]
             ELSE ValidateLoop(r.st, batch, i + 1, param, ledger)

\* Outcome of a call that keeps what was written before the exception
Outcome_NoRollback(st, run) == run.st

\* What the call leaves in the database: an exception leaves the method and
\* the transaction of the request is rolled back; otherwise it commits.
Outcome(st, run) ==
    IF run.err = NoError THEN run.st ELSE st

(***************************************************************************)
(* Actions.                                                                *)
(***************************************************************************)
Amounts == (0 - 1) .. MaxAmount

Exists(id) == recs[id] # NoRec

\* recordsets action_validate is called on: existing records, none twice
Batches ==
    LET live == {r \in RecIds : Exists(r)}
    IN  { <<a>> : a \in live }
          \cup { p \in { <<a, b>> : a, b \in live } : p[1] # p[2] }

Init ==
    /\ recs = [r \in RecIds |-> NoRec]
    /\ moves = <<>>
    /\ central_param = ParamUnset
    /\ user_ou \in {0, 1, 2}
    /\ call = NoCall

\* default_get followed by create: a new draft with the proposed journals,
\* in company of the environment, dated today
New(id, company, today) ==
    /\ ~Exists(id)
    /\ \A r \in RecIds : r < id => Exists(r)
    /\ LET j_from == FindCashJournalByOU(company, GetUserDefaultOU)
           j_to   == GetCentralCashJournal(company, central_param)
       IN  recs' = [recs EXCEPT ![id] =
                      [ date            |-> today,
                        company_id      |-> company,
                        journal_id_from |-> j_from,
                        journal_id_to   |-> j_to,
                        amount          |-> 0,
                        currency_id     |-> CompanyCurrency(company),
                        state           |-> "draft" ]]
    /\ call' = NoCall
    /\ UNCHANGED <<moves, central_param, user_ou>>

\* write({field: value}) on a draft: the value is stored as given (the
\* domain of the journal fields filters the form's selection, write() does
\* not apply it)
Write(id, field, value) ==
    /\ Exists(id)
    /\ recs[id].state = "draft"
    /\ recs[id][field] # value
    /\ recs' = [recs EXCEPT ![id][field] = value]
    /\ call' = NoCall
    /\ UNCHANGED <<moves, central_param, user_ou>>

\* ir.config_parameter set_param
SetParam(value) ==
    /\ central_param # value
    /\ central_param' = value
    /\ call' = NoCall
    /\ UNCHANGED <<recs, moves, user_ou>>

\* records.action_validate() as one request
Validate(batch, ledger) ==
    /\ LET st  == [recs |-> recs, moves |-> moves]
           run == ValidateLoop(st, batch, 1, central_param, ledger)
           out == Outcome(st, run)
       IN  /\ Len(out.moves) <= MaxMoves
           /\ recs' = out.recs
           /\ moves' = out.moves
           /\ call' = [op |-> "validate", batch |-> batch, err |-> run.err, at |-> run.at]
    /\ UNCHANGED <<central_param, user_ou>>

\* the record the specification Spec follows
Studied == {1}

Next ==
    \/ \E id \in Studied, c \in Companies, d \in Dates : New(id, c, d)
    \/ \E id \in Studied, c \in Companies : Write(id, "company_id", c)
    \/ \E id \in Studied, j \in JournalIds \cup {0} : Write(id, "journal_id_from", j)
    \/ \E id \in Studied, j \in JournalIds \cup {0} : Write(id, "journal_id_to", j)
    \/ \E id \in Studied, a \in Amounts : Write(id, "amount", a)
    \/ \E id \in Studied, c \in Currencies : Write(id, "currency_id", c)
    \/ \E id \in Studied, d \in Dates : Write(id, "date", d)
    \/ \E v \in ParamValues : SetParam(v)
    \/ \E b \in Batches : \E l \in [1..Len(b) -> LedgerOutcomes] : Validate(b, l)

Spec == Init /\ [][Next]_vars

\* destinations written and companies used in the specification of batches
BatchDestPicks == {0, 2, 3}

BatchCompanies == {1, 2}

\* Calls on recordsets of two records: both records are created with the
\* proposed journals, their amount and destination are written, and any
\* recordset of them is validated.
NextBatch ==
    \/ \E id \in RecIds, c \in BatchCompanies, d \in Dates : New(id, c, d)
    \/ \E id \in RecIds, a \in Amounts : Write(id, "amount", a)
    \/ \E id \in RecIds, j \in BatchDestPicks : Write(id, "journal_id_to", j)
    \/ \E b \in Batches : \E l \in [1..Len(b) -> LedgerOutcomes] : Validate(b, l)

SpecBatch == Init /\ [][NextBatch]_vars

(***************************************************************************)
(* Properties of action_validate.                                          *)
(*                                                                         *)
(* A step of Validate is a step that leaves call' with op = "validate";    *)
(* in such a step the unprimed variables are the database before the call  *)
(* and the primed ones the database after it.                              *)
(***************************************************************************)
ValidateStep == call'.op = "validate"

\* posted moves whose memo references record id
PostedMovesOf(id) ==
    { i \in 1..Len(moves) : moves[i].ref = id /\ moves[i].state = "posted" }

MovesOf(id) == { i \in 1..Len(moves) : moves[i].ref = id }

\* a journal has a main account: one of its three accounts is set
HasMainAccount(j) ==
    /\ j \in JournalIds
    /\ \/ Journal(j).default_account_id # 0
       \/ Journal(j).payment_debit_account_id # 0
       \/ Journal(j).payment_credit_account_id # 0

\* the five preconditions in the order the specification lists them
Preconditions(rec, param) ==
    LET central == GetCentralCashJournal(rec.company_id, param)
    IN  << [holds |-> rec.amount > 0, error |-> "InvalidAmount"],
           [holds |-> rec.journal_id_from # 0 /\ rec.journal_id_to # 0,
            error |-> "MissingJournal"],
           [holds |-> rec.journal_id_from # rec.journal_id_to, error |-> "SameJournal"],
           [holds |-> central = 0 \/ rec.journal_id_to = central,
            error |-> "DestinationMustBeCentral"],
           [holds |-> HasMainAccount(rec.journal_id_from) /\ HasMainAccount(rec.journal_id_to),
            error |-> "MissingJournalAccount"] >>

\* the error of the first precondition in that order that fails, NoError if all hold
FirstFailing(rec, param) ==
    LET pre    == Preconditions(rec, param)
        failed == { k \in 1..Len(pre) : ~pre[k].holds }
    IN  IF failed = {} THEN NoError
        ELSE pre[CHOOSE k \in failed : \A m \in failed : k <= m].error

\* C1 (as claimed): in every reachable state a validated record is backed by
\* exactly one posted move and a draft record by no move.
C1_ValidatedBackedByOneMove ==
    \A id \in RecIds :
        /\ recs[id].state = "validated" => Cardinality(PostedMovesOf(id)) = 1
        /\ recs[id].state = "draft" => MovesOf(id) = {}

\* C2: a validate call reports the error of the first precondition, in the
\* order amount, journals set, journals distinct, destination central, main
\* accounts, that fails for the record it stops at; the records before it,
\* and every record of a call that succeeds or fails in the ledger, pass all five.
C2_FirstFailingCheckWins ==
    [][ ValidateStep =>
          LET b    == call'.batch
              last == IF call'.err = NoError THEN Len(b) ELSE call'.at
          IN  /\ \A i \in 1..(last - 1) : FirstFailing(recs[b[i]], central_param) = NoError
              /\ last >= 1
              /\ IF call'.err \in PreconditionErrors
                 THEN FirstFailing(recs[b[last]], central_param) = call'.err
                 ELSE FirstFailing(recs[b[last]], central_param) = NoError ]_vars

\* C2 witness: a call stopped at the destination check on a record whose
\* destination also lacks a main account (a later check fails as well)
C2_Witness ==
    /\ call.op = "validate"
    /\ call.err = "DestinationMustBeCentral"
    /\ ~HasMainAccount(recs[call.batch[call.at]].journal_id_to)

\* the journals of rec are valid distinct cash journals of rec's company:
\* both exist with type cash in that company, differ, have a main account,
\* and the destination is the central journal when one resolves
ValidJournals(rec, param) ==
    LET central == GetCentralCashJournal(rec.company_id, param)
    IN  /\ rec.journal_id_from \in JournalIds /\ rec.journal_id_to \in JournalIds
        /\ rec.journal_id_from # rec.journal_id_to
        /\ JournalType(rec.journal_id_from) = "cash" /\ JournalType(rec.journal_id_to) = "cash"
        /\ JournalCompany(rec.journal_id_from) = rec.company_id
        /\ JournalCompany(rec.journal_id_to) = rec.company_id
        /\ HasMainAccount(rec.journal_id_from) /\ HasMainAccount(rec.journal_id_to)
        /\ central # 0 => rec.journal_id_to = central

\* C3: a validate call on one record with a positive amount and valid distinct
\* cash journals of its company, which the ledger engine does not refuse,
\* adds exactly one move to the ledger, posted, with two lines whose debits
\* and credits have the same total and whose debit is the amount, and leaves
\* the record validated.
C3_ValidTransferPostsOneBalancedMove ==
    [][ ( /\ ValidateStep
          /\ Len(call'.batch) = 1
          /\ recs[call'.batch[1]].amount > 0
          /\ ValidJournals(recs[call'.batch[1]], central_param)
          /\ call'.err # "LedgerPostingFailed" )
        => LET id == call'.batch[1]
               mv == moves'[Len(moves')]
           IN  /\ call'.err = NoError
               /\ Len(moves') = Len(moves) + 1
               /\ SubSeq(moves', 1, Len(moves)) = moves
               /\ mv.state = "posted"
               /\ mv.ref = id
               /\ Len(mv.line_ids) = 2
               /\ mv.line_ids[1].debit + mv.line_ids[2].debit
                    = mv.line_ids[1].credit + mv.line_ids[2].credit
               /\ mv.line_ids[1].debit + mv.line_ids[2].debit = recs[id].amount
               /\ mv.line_ids[1].debit = recs[id].amount
               /\ recs'[id].state = "validated" ]_vars

\* C3 witness: a draft with valid journals was validated and its move is in the ledger
C3_Witness ==
    /\ call.op = "validate"
    /\ call.err = NoError
    /\ Len(call.batch) = 1
    /\ ValidJournals(recs[call.batch[1]], central_param)
    /\ recs[call.batch[1]].state = "validated"
    /\ Cardinality(PostedMovesOf(call.batch[1])) = 1

\* C4: a validate call in which the ledger engine refuses the creation or the
\* posting of a move changes neither the records nor the ledger: a draft
\* stays draft and no move of the call exists afterwards.
C4_LedgerFailureLeavesDraftAndNoMove ==
    [][ (ValidateStep /\ call'.err = "LedgerPostingFailed")
        => /\ moves' = moves
           /\ recs' = recs
           /\ \A i \in 1..Len(call'.batch) :
                recs[call'.batch[i]].state = "draft"
                  => /\ recs'[call'.batch[i]].state = "draft"
                     /\ { k \in 1..Len(moves') : moves'[k].ref = call'.batch[i] } = {} ]_vars

\* C4 witness: the ledger refused the move of a draft, which is a draft still
C4_Witness ==
    /\ call.op = "validate"
    /\ call.err = "LedgerPostingFailed"
    /\ recs[call.batch[call.at]].state = "draft"
    /\ MovesOf(call.batch[call.at]) = {}

\* C5 (as claimed): every validate call that succeeds is on records whose
\* source and destination journals belong to the record's company.
C5_JournalsOfTheRecordsCompany ==
    [][ (ValidateStep /\ call'.err = NoError)
        => \A i \in 1..Len(call'.batch) :
             LET rec == recs[call'.batch[i]]
             IN  /\ JournalCompany(rec.journal_id_from) = rec.company_id
                 /\ JournalCompany(rec.journal_id_to) = rec.company_id ]_vars

\* C6: a validate call whose first record has amount zero or negative ends
\* in InvalidAmount, whatever the record's other fields, and changes nothing.
C6_NonPositiveAmountIsInvalidAmount ==
    [][ (ValidateStep /\ recs[call'.batch[1]].amount <= 0)
        => /\ call'.err = "InvalidAmount"
           /\ call'.at = 1
           /\ moves' = moves
           /\ recs' = recs ]_vars

\* C6 witness: InvalidAmount on a negative amount although source and destination are missing
C6_Witness ==
    /\ call.op = "validate"
    /\ call.err = "InvalidAmount"
    /\ recs[call.batch[1]].amount < 0
    /\ recs[call.batch[1]].journal_id_from = 0

\* C7 (as claimed): a validate call on a record whose source and destination
\* are the same journal ends in SameJournal, regardless of the amount.
C7_SameJournalAlwaysSameJournal ==
    [][ ( /\ ValidateStep
          /\ recs[call'.batch[1]].journal_id_from # 0
          /\ recs[call'.batch[1]].journal_id_from = recs[call'.batch[1]].journal_id_to )
        => call'.err = "SameJournal" ]_vars

\* C7 (amended): a validate call on a record whose source and destination are
\* the same journal fails whatever the amount and changes nothing; it ends in
\* SameJournal when the amount is positive and in InvalidAmount otherwise.
C7_SameJournalFails ==
    [][ ( /\ ValidateStep
          /\ recs[call'.batch[1]].journal_id_from # 0
          /\ recs[call'.batch[1]].journal_id_from = recs[call'.batch[1]].journal_id_to )
        => /\ call'.err = IF recs[call'.batch[1]].amount > 0
                          THEN "SameJournal" ELSE "InvalidAmount"
           /\ moves' = moves
           /\ recs' = recs ]_vars

\* C7 witness: a call ended in SameJournal on a record with one journal on both sides
C7_Witness ==
    /\ call.op = "validate"
    /\ call.err = "SameJournal"
    /\ recs[call.batch[1]].journal_id_from = recs[call.batch[1]].journal_id_to
    /\ recs[call.batch[1]].journal_id_from # 0

\* a central journal resolves for rec's company and rec's destination is another cash journal
DestinationNotCentral(rec, param) ==
    LET central == GetCentralCashJournal(rec.company_id, param)
    IN  /\ central # 0
        /\ rec.journal_id_to \in JournalIds
        /\ JournalType(rec.journal_id_to) = "cash"
        /\ rec.journal_id_to # central

\* C8 (as claimed): a validate call on a record whose destination is a cash
\* journal other than the central journal that resolves ends in DestinationMustBeCentral.
C8_NotCentralAlwaysDestinationMustBeCentral ==
    [][ (ValidateStep /\ DestinationNotCentral(recs[call'.batch[1]], central_param))
        => call'.err = "DestinationMustBeCentral" ]_vars

\* C8 (amended): such a call fails and changes nothing; it ends in
\* DestinationMustBeCentral when the amount is positive, the source is set and
\* differs from the destination, and otherwise in the error of the earlier
\* check that fails (InvalidAmount, MissingJournal, SameJournal).
C8_NotCentralFails ==
    [][ (ValidateStep /\ DestinationNotCentral(recs[call'.batch[1]], central_param))
        => LET rec == recs[call'.batch[1]]
           IN  /\ call'.err =
                    IF rec.amount <= 0 THEN "InvalidAmount"
                    ELSE IF rec.journal_id_from = 0 THEN "MissingJournal"
                    ELSE IF rec.journal_id_from = rec.journal_id_to THEN "SameJournal"
                    ELSE "DestinationMustBeCentral"
               /\ moves' = moves
               /\ recs' = recs ]_vars

\* C8 witness: a call ended in DestinationMustBeCentral on such a record
C8_Witness ==
    /\ call.op = "validate"
    /\ call.err = "DestinationMustBeCentral"
    /\ DestinationNotCentral(recs[call.batch[1]], central_param)

\* C9: no validate call succeeds on a record whose destination differs from
\* the central journal that resolves for its company at the time of the call.
C9_ValidatedOnlyIntoCentral ==
    [][ (ValidateStep /\ call'.err = NoError)
        => \A i \in 1..Len(call'.batch) :
             LET rec     == recs[call'.batch[i]]
                 central == GetCentralCashJournal(rec.company_id, central_param)
             IN  /\ recs'[call'.batch[i]].state = "validated"
                 /\ central # 0 => rec.journal_id_to = central ]_vars

\* C9 witness: a record was validated into the central journal the parameter configures
C9_Witness ==
    /\ call.op = "validate"
    /\ call.err = NoError
    /\ CentralId(central_param) # 0
    /\ recs[call.batch[1]].journal_id_to = CentralId(central_param)
    /\ GetCentralCashJournal(recs[call.batch[1]].company_id, central_param)
         = CentralId(central_param)
    /\ recs[call.batch[1]].state = "validated"

\* C10: a validate call that ends in one of the five precondition errors
\* leaves every record, with its state and fields, and the ledger as they
\* were before the call, also when records before the failing one had been
\* processed.
C10_PreconditionErrorHasNoSideEffect ==
    [][ (ValidateStep /\ call'.err \in PreconditionErrors)
        => /\ recs' = recs
           /\ moves' = moves
           /\ central_param' = central_param ]_vars

\* C10 witness: a call on two records ended in a precondition error of the
\* second one, after the first one had passed every check; the first one is
\* a draft without a move
C10_Witness ==
    /\ call.op = "validate"
    /\ call.err \in PreconditionErrors
    /\ call.at = 2
    /\ FirstFailing(recs[call.batch[1]], central_param) = NoError
    /\ recs[call.batch[1]].state = "draft"
    /\ MovesOf(call.batch[1]) = {}

(***************************************************************************)
(* Calls of the resolvers and of default_get.                              *)
(***************************************************************************)
OperatingUnitIds == {u.id : u \in OperatingUnits}

JournalFields == {"journal_id_from", "journal_id_to"}

\* default_get that looks for the source journal without the user's unit
DefaultGet_IgnoresUserOU(company, fields_list) ==
    LET j_from == FindCashJournalByOU(company, 0)
        j_to   == GetCentralCashJournal(company, central_param)
    IN  [ journal_id_from |-> IF "journal_id_from" \in fields_list /\ j_from # 0
                              THEN j_from ELSE 0,
          journal_id_to   |-> IF "journal_id_to" \in fields_list /\ j_to # 0
                              THEN j_to ELSE 0 ]

\* the journals default_get puts in res for the environment's company: a
\* field gets a value only if it is asked for and a journal is found
DefaultGet(company, fields_list) ==
    LET user_ou_ == GetUserDefaultOU
        j_from   == FindCashJournalByOU(company, user_ou_)
        j_to     == GetCentralCashJournal(company, central_param)
    IN  [ journal_id_from |-> IF "journal_id_from" \in fields_list /\ j_from # 0
                              THEN j_from ELSE 0,
          journal_id_to   |-> IF "journal_id_to" \in fields_list /\ j_to # 0
                              THEN j_to ELSE 0 ]

\* a call of _get_central_cash_journal(company)
ResolveCentral(company) ==
    /\ call' = [ op |-> "get_central", company |-> company,
                 result |-> GetCentralCashJournal(company, central_param) ]
    /\ UNCHANGED <<recs, moves, central_param, user_ou>>

\* a call of _find_cash_journal_by_ou(company, ou)
FindJournal(company, ou) ==
    /\ call' = [ op |-> "find_cash", company |-> company, ou |-> ou,
                 result |-> FindCashJournalByOU(company, ou) ]
    /\ UNCHANGED <<recs, moves, central_param, user_ou>>

\* a call of default_get(fields_list) in the environment of company
DefaultGetCall(company, fields_list) ==
    /\ call' = [ op |-> "default_get", company |-> company, fields_list |-> fields_list,
                 res |-> DefaultGet(company, fields_list) ]
    /\ UNCHANGED <<recs, moves, central_param, user_ou>>

NextResolve ==
    \/ \E v \in ParamValues : SetParam(v)
    \/ \E c \in Companies : ResolveCentral(c)
    \/ \E c \in Companies, ou \in OperatingUnitIds \cup {0} : FindJournal(c, ou)
    \/ \E c \in Companies, f \in SUBSET JournalFields : DefaultGetCall(c, f)

SpecResolve == Init /\ [][NextResolve]_vars

(***************************************************************************)
(* Properties of the resolvers.                                            *)
(***************************************************************************)
\* the configuration parameter names journal id: a journal that exists
ParamNames(id) == id # 0 /\ id = CentralId(central_param) /\ id \in JournalIds

\* name contains "central", whatever the case of its letters
NameHasCentral(name) ==
    LET lower == <<"c", "e", "n", "t", "r", "a", "l">>
        upper == <<"C", "E", "N", "T", "R", "A", "L">>
    IN  \E i \in 0..(Len(name) - 7) :
            \A k \in 1..7 : name[i + k] = lower[k] \/ name[i + k] = upper[k]

\* what the name/code fallback alone resolves to: the cash journal of company
\* tagged with a unit of company named like Central or coded CENTRAL, 0 if none
FallbackJournal(company) ==
    LET units == { u \in OperatingUnits :
                     /\ u.company = company
                     /\ (NameHasCentral(u.name) \/ u.code = <<"C", "E", "N", "T", "R", "A", "L">>) }
        found == { j \in Journals :
                     /\ j.type = "cash" /\ j.company = company
                     /\ \E u \in units : j.operating_unit_id = u.id }
    IN  IF found = {} THEN 0 ELSE (CHOOSE j \in found : TRUE).id

\* C11: when the parameter names an existing cash journal of the company and
\* the name/code fallback resolves to another journal, _get_central_cash_journal
\* returns the journal the parameter names.
C11_ConfiguredJournalPreferred ==
    (call.op = "get_central" /\ \E id \in JournalIds :
        /\ ParamNames(id)
        /\ Journal(id).company = call.company
        /\ Journal(id).type = "cash"
        /\ FallbackJournal(call.company) # 0
        /\ FallbackJournal(call.company) # id)
    => call.result = CentralId(central_param)

\* C11 witness: the configured journal 1 was returned for company 1, whose fallback is journal 2
C11_Witness ==
    /\ call.op = "get_central"
    /\ call.company = 1
    /\ ParamNames(1)
    /\ FallbackJournal(1) = 2
    /\ call.result = 1

\* C12: _find_cash_journal_by_ou(company, unit) returns the journal of lowest
\* id among the cash journals of company, of unit when a unit is given, and
\* the empty recordset when there is none; never a journal of another type
\* or company.
C12_LowestIdCashJournalOfUnit ==
    call.op = "find_cash" =>
        LET matching == { j \in Journals :
                            /\ j.type = "cash"
                            /\ j.company = call.company
                            /\ (call.ou # 0 => j.operating_unit_id = call.ou) }
        IN  IF matching = {}
            THEN call.result = 0
            ELSE /\ call.result \in { j.id : j \in matching }
                 /\ \A j \in matching : call.result <= j.id
                 /\ JournalType(call.result) = "cash"
                 /\ JournalCompany(call.result) = call.company

\* C12 witness: without a unit, journal 1 was returned for company 1 although
\* journal 2 comes first in the default order
C12_Witness ==
    /\ call.op = "find_cash"
    /\ call.company = 1
    /\ call.ou = 0
    /\ call.result = 1
    /\ Journal(2).sortkey < Journal(1).sortkey

\* C18: _get_central_cash_journal returns the journal the parameter names
\* only if it exists, belongs to the company and is of type cash; with the
\* parameter unset, empty, zero or naming any other journal it returns what
\* the name/code fallback alone resolves to, the empty recordset if nothing.
C18_ParameterUsedOnlyIfValid ==
    call.op = "get_central" =>
        LET usable == \E id \in JournalIds :
                         /\ ParamNames(id)
                         /\ Journal(id).company = call.company
                         /\ Journal(id).type = "cash"
        IN  /\ usable => call.result = CentralId(central_param)
            /\ ~usable => call.result = FallbackJournal(call.company)

\* C18 witness: the parameter names the bank journal 4 of company 1 and the
\* fallback's journal 2 was returned
C18_Witness ==
    /\ call.op = "get_central"
    /\ call.company = 1
    /\ ParamNames(4)
    /\ call.result = 2
    /\ call.result = FallbackJournal(1)

\* C16: default_get proposes, for each journal field it is asked for, as
\* source the cash journal found for the company and the user's unit and as
\* destination the central journal of the company (no value when none is
\* found); for company 1 with journal 1 of unit 1 and journal 2 of the
\* central unit, a user of unit 1 and no parameter, source 1 and destination 2.
C16_DefaultsAreUnitJournalAndCentral ==
    call.op = "default_get" =>
        /\ "journal_id_from" \in call.fields_list
             => call.res.journal_id_from = FindCashJournalByOU(call.company, user_ou)
        /\ "journal_id_to" \in call.fields_list
             => call.res.journal_id_to = GetCentralCashJournal(call.company, central_param)
        /\ ( /\ call.fields_list = JournalFields
             /\ call.company = 1 /\ user_ou = 1 /\ central_param = ParamUnset )
             => call.res = [journal_id_from |-> 1, journal_id_to |-> 2]

\* C16 witness: default_get was asked for both journals in company 1 by a
\* user of unit 1 without a parameter
C16_Witness ==
    /\ call.op = "default_get"
    /\ call.fields_list = JournalFields
    /\ call.company = 1
    /\ user_ou = 1
    /\ central_param = ParamUnset
    /\ JournalOU(call.res.journal_id_from) = 1
    /\ call.res.journal_id_to = FallbackJournal(1)

(***************************************************************************)
(* Reactive rules: the onchange handlers of the form.                      *)
(***************************************************************************)
\* _onchange_company_id_set_journals that looks for the source journal
\* without the user's unit
OnchangeCompanyIdSetJournals_IgnoresUserOU(rec, ou, param) ==
    IF rec.company_id = 0 THEN rec
    ELSE [rec EXCEPT !.journal_id_from = FindCashJournalByOU(rec.company_id, 0),
                     !.journal_id_to = GetCentralCashJournal(rec.company_id, param)]

\* _onchange_company_id_set_journals that keeps a journal when none is found
OnchangeCompanyIdSetJournals_KeepsIfNotFound(rec, ou, param) ==
    IF rec.company_id = 0 THEN rec
    ELSE LET j_from == FindCashJournalByOU(rec.company_id, ou)
             j_to   == GetCentralCashJournal(rec.company_id, param)
         IN  [rec EXCEPT !.journal_id_from = IF j_from # 0 THEN j_from ELSE @,
                         !.journal_id_to = IF j_to # 0 THEN j_to ELSE @]

\* _onchange_company_id_set_journals on one record, ou being the user's unit
OnchangeCompanyIdSetJournals(rec, ou, param) ==
    IF rec.company_id = 0 THEN rec
    ELSE [rec EXCEPT !.journal_id_from = FindCashJournalByOU(rec.company_id, ou),
                     !.journal_id_to = GetCentralCashJournal(rec.company_id, param)]

\* _onchange_from_enforce_ou that assigns the journal found even when none is
OnchangeFromEnforceOU_AssignsEmpty(rec, ou) ==
    IF /\ rec.company_id # 0 /\ ou # 0
       /\ rec.journal_id_from # 0
       /\ JournalOU(rec.journal_id_from) # ou
    THEN [rec EXCEPT !.journal_id_from = FindCashJournalByOU(rec.company_id, ou)]
    ELSE rec

\* _onchange_from_enforce_ou on one record, ou being the user's unit
OnchangeFromEnforceOU(rec, ou) ==
    IF /\ rec.company_id # 0 /\ ou # 0
       /\ rec.journal_id_from # 0
       /\ JournalOU(rec.journal_id_from) # ou
    THEN LET j == FindCashJournalByOU(rec.company_id, ou)
         IN  IF j # 0 THEN [rec EXCEPT !.journal_id_from = j] ELSE rec
    ELSE rec

\* _onchange_to_enforce_central that fills the destination only when it is empty
OnchangeToEnforceCentral_OnlyIfEmpty(rec, param) ==
    IF rec.company_id # 0
    THEN LET central == GetCentralCashJournal(rec.company_id, param)
         IN  IF central # 0 /\ rec.journal_id_to = 0
             THEN [rec EXCEPT !.journal_id_to = central] ELSE rec
    ELSE rec

\* _onchange_to_enforce_central on one record
OnchangeToEnforceCentral(rec, param) ==
    IF rec.company_id # 0
    THEN LET central == GetCentralCashJournal(rec.company_id, param)
         IN  IF central # 0 THEN [rec EXCEPT !.journal_id_to = central] ELSE rec
    ELSE rec

\* the user sets the company of the form (0: clears it) and the handler runs
ChangeCompany(id, company) ==
    /\ Exists(id)
    /\ recs[id].state = "draft"
    /\ recs' = [recs EXCEPT ![id] =
                  OnchangeCompanyIdSetJournals([recs[id] EXCEPT !.company_id = company],
                                               GetUserDefaultOU, central_param)]
    /\ call' = [ op |-> "onchange_company", id |-> id, pick |-> company,
                 before |-> <<recs[id].journal_id_from, recs[id].journal_id_to>> ]
    /\ UNCHANGED <<moves, central_param, user_ou>>

\* the user selects a source journal (0: clears it) and the handler runs
ChangeFrom(id, journal) ==
    /\ Exists(id)
    /\ recs[id].state = "draft"
    /\ recs' = [recs EXCEPT ![id] =
                  OnchangeFromEnforceOU([recs[id] EXCEPT !.journal_id_from = journal],
                                        GetUserDefaultOU)]
    /\ call' = [op |-> "onchange_from", id |-> id, pick |-> journal]
    /\ UNCHANGED <<moves, central_param, user_ou>>

\* the user selects a destination journal (0: clears it) and the handler runs
ChangeTo(id, journal) ==
    /\ Exists(id)
    /\ recs[id].state = "draft"
    /\ recs' = [recs EXCEPT ![id] =
                  OnchangeToEnforceCentral([recs[id] EXCEPT !.journal_id_to = journal],
                                           central_param)]
    /\ call' = [op |-> "onchange_to", id |-> id, pick |-> journal]
    /\ UNCHANGED <<moves, central_param, user_ou>>

\* The form of one record: it is opened with the proposed journals, the user
\* changes company, source and destination, and the parameter is set.
NextForm ==
    \/ \E id \in Studied, c \in Companies, d \in Dates : New(id, c, d)
    \/ \E id \in Studied, c \in Companies \cup {0} : ChangeCompany(id, c)
    \/ \E id \in Studied, j \in JournalIds \cup {0} : ChangeFrom(id, j)
    \/ \E id \in Studied, j \in JournalIds \cup {0} : ChangeTo(id, j)
    \/ \E v \in ParamValues : SetParam(v)

SpecForm == Init /\ [][NextForm]_vars

(***************************************************************************)
(* Properties of the reactive rules.                                       *)
(***************************************************************************)
OnchangeToStep == call'.op = "onchange_to"

OnchangeFromStep == call'.op = "onchange_from"

OnchangeCompanyStep == call'.op = "onchange_company"

\* the record with its two journals left out
OtherFields(rec) ==
    [f \in (DOMAIN rec) \ JournalFields |-> rec[f]]

\* C13: on a change of the destination journal, if a central journal resolves
\* for the record's company the destination becomes that journal whatever the
\* user picked; if none resolves, or the record has no company, the
\* destination is the user's pick.  Nothing else of the record changes.
C13_DestinationSnapsToCentral ==
    [][OnchangeToStep =>
        LET id      == call'.id
            company == recs[id].company_id
            central == GetCentralCashJournal(company, central_param)
        IN  /\ recs'[id].journal_id_to =
                 IF company # 0 /\ central # 0 THEN central ELSE call'.pick
            /\ recs'[id].journal_id_from = recs[id].journal_id_from
            /\ OtherFields(recs'[id]) = OtherFields(recs[id])]_vars

\* a non-central journal was picked as destination and the central one stands
C13_Witness ==
    /\ call.op = "onchange_to"
    /\ call.pick # 0
    /\ recs[call.id].journal_id_to # call.pick
    /\ recs[call.id].journal_id_to =
         GetCentralCashJournal(recs[call.id].company_id, central_param)

\* C14: on a change of the source journal, if the user has a unit, the
\* selected journal's unit differs from it and a cash journal of the user's
\* unit exists in the record's company, the source becomes the lowest-id cash
\* journal of that unit; in every other case the source is the user's pick.
C14_SourceSnapsToUserUnit ==
    [][OnchangeFromStep =>
        LET id      == call'.id
            pick    == call'.pick
            company == recs[id].company_id
            mine    == { j \in Journals : /\ j.type = "cash"
                                          /\ j.company = company
                                          /\ j.operating_unit_id = user_ou }
            replace == /\ user_ou # 0
                       /\ pick # 0
                       /\ JournalOU(pick) # user_ou
                       /\ company # 0
                       /\ mine # {}
        IN  /\ recs'[id].journal_id_from =
                 IF replace THEN FindCashJournalByOU(company, user_ou) ELSE pick
            /\ replace => /\ Journal(recs'[id].journal_id_from) \in mine
                          /\ \A j \in mine : recs'[id].journal_id_from <= j.id
            /\ recs'[id].journal_id_to = recs[id].journal_id_to
            /\ OtherFields(recs'[id]) = OtherFields(recs[id])]_vars

\* a journal of another unit was picked and the journal of the user's unit
\* stands in its place
C14_Witness ==
    /\ call.op = "onchange_from"
    /\ call.pick # 0
    /\ user_ou # 0
    /\ recs[call.id].journal_id_from # call.pick
    /\ recs[call.id].journal_id_from # 0
    /\ JournalOU(recs[call.id].journal_id_from) = user_ou

\* C15: on a change of the company to a company, the source journal becomes
\* the cash journal found for the company and the user's unit and the
\* destination becomes the central journal resolved for the company; both
\* are overwritten, with the empty journal when the lookup finds nothing.
C15_CompanyChangeOverwritesBothJournals ==
    [][(OnchangeCompanyStep /\ call'.pick # 0) =>
        LET id == call'.id
        IN  /\ recs'[id].company_id = call'.pick
            /\ recs'[id].journal_id_from =
                 FindCashJournalByOU(call'.pick, user_ou)
            /\ recs'[id].journal_id_to =
                 GetCentralCashJournal(call'.pick, central_param)
            /\ \A f \in (DOMAIN recs[id]) \ (JournalFields \cup {"company_id"}) :
                 recs'[id][f] = recs[id][f]]_vars

\* a company change emptied a journal that had been chosen before
C15_Witness ==
    /\ call.op = "onchange_company"
    /\ call.pick # 0
    /\ call.before[1] # 0
    /\ call.before[2] # 0
    /\ \/ recs[call.id].journal_id_from = 0
       \/ recs[call.id].journal_id_to = 0

\* C20: the source and the destination handler are idempotent, and the
\* journals the company handler sets are left alone by both, the parameter
\* and the user's unit being the same.
C20_ReactiveRulesAreStable ==
    [][LET id == call'.id
       IN  /\ OnchangeFromStep =>
                OnchangeFromEnforceOU(recs'[id], user_ou) = recs'[id]
           /\ OnchangeToStep =>
                OnchangeToEnforceCentral(recs'[id], central_param) = recs'[id]
           /\ OnchangeCompanyStep =>
                /\ OnchangeFromEnforceOU(recs'[id], user_ou) = recs'[id]
                /\ OnchangeToEnforceCentral(recs'[id], central_param) = recs'[id]
                /\ OnchangeToEnforceCentral(
                       OnchangeFromEnforceOU(recs'[id], user_ou), central_param)
                     = recs'[id]]_vars

\* a company change set both journals for a user with a unit
C20_Witness ==
    /\ call.op = "onchange_company"
    /\ user_ou # 0
    /\ recs[call.id].journal_id_from # 0
    /\ recs[call.id].journal_id_to # 0
    /\ <<recs[call.id].journal_id_from, recs[call.id].journal_id_to>> # call.before

(***************************************************************************)
(* Properties of the move and of calls on several records.                 *)
(***************************************************************************)
\* the accounts of journal j in the order of preference of the main account
AccountsByPriority(j) ==
    << Journal(j).default_account_id,
       Journal(j).payment_debit_account_id,
       Journal(j).payment_credit_account_id >>

\* the first non-empty element of a sequence of ids, 0 if there is none
FirstNonEmpty(ids) ==
    LET set == { k \in 1..Len(ids) : ids[k] # 0 }
    IN  IF set = {} THEN 0
        ELSE ids[CHOOSE k \in set : \A m \in set : k <= m]

\* C17: every move a validate call posts has one debit line, on the first
\* non-empty of the default, payment-debit and payment-credit account of the
\* record's destination journal, and one credit line, on the first non-empty
\* of those accounts of the source journal; the move is in the destination
\* journal and has the record's date.
C17_MoveLinesOnMainAccounts ==
    [][ (ValidateStep /\ call'.err = NoError)
        => /\ Len(moves') = Len(moves) + Len(call'.batch)
           /\ \A i \in 1..Len(call'.batch) :
                LET rec     == recs[call'.batch[i]]
                    mv      == moves'[Len(moves) + i]
                    lines   == { mv.line_ids[k] : k \in 1..Len(mv.line_ids) }
                    debits  == { l \in lines : l.debit > 0 }
                    credits == { l \in lines : l.credit > 0 }
                IN  /\ mv.state = "posted"
                    /\ Cardinality(debits) = 1
                    /\ Cardinality(credits) = 1
                    /\ debits \cup credits = lines
                    /\ \A l \in debits :
                         /\ l.account_id # 0
                         /\ l.account_id =
                              FirstNonEmpty(AccountsByPriority(rec.journal_id_to))
                    /\ \A l \in credits :
                         /\ l.account_id # 0
                         /\ l.account_id =
                              FirstNonEmpty(AccountsByPriority(rec.journal_id_from))
                    /\ mv.journal_id = rec.journal_id_to
                    /\ mv.date = rec.date ]_vars

\* a move was posted from a source journal with a default and a payment-debit
\* account into a destination journal with no default account and both
\* payment accounts
C17_Witness ==
    /\ call.op = "validate"
    /\ call.err = NoError
    /\ moves # <<>>
    /\ LET rec == recs[call.batch[1]]
           mv  == moves[Len(moves)]
       IN  /\ mv.ref = call.batch[1]
           /\ rec.journal_id_from # 0
           /\ rec.journal_id_to # 0
           /\ AccountsByPriority(rec.journal_id_from)[1] # 0
           /\ AccountsByPriority(rec.journal_id_from)[2] # 0
           /\ AccountsByPriority(rec.journal_id_to)[1] = 0
           /\ AccountsByPriority(rec.journal_id_to)[2] # 0
           /\ AccountsByPriority(rec.journal_id_to)[3] # 0
           /\ mv.line_ids[1].account_id = AccountsByPriority(rec.journal_id_to)[2]
           /\ mv.line_ids[2].account_id = AccountsByPriority(rec.journal_id_from)[1]

\* the call stopped at a record: an exception left action_validate
FailedValidateStep == ValidateStep /\ call'.err # NoError

\* C19 (as claimed): after a validate call on several records that fails, no
\* record of the recordset is validated.
C19_NoRecordOfFailedBatchValidated ==
    [][ (FailedValidateStep /\ Len(call'.batch) > 1)
        => \A i \in 1..Len(call'.batch) :
             recs'[call'.batch[i]].state # "validated" ]_vars

\* C19: a validate call on several records goes through them in order and,
\* if a check or the ledger fails for one of them, leaves every record of the
\* recordset in the state it had before the call (no draft becomes
\* validated) and leaves the ledger as it was: no move of the call remains,
\* in particular none for the records before the failing one, which had
\* passed every check.
C19_FailedBatchChangesNothing ==
    [][ (FailedValidateStep /\ Len(call'.batch) > 1)
        => LET b == call'.batch
           IN  /\ call'.at \in 1..Len(b)
               /\ \A i \in 1..(call'.at - 1) :
                    FirstFailing(recs[b[i]], central_param) = NoError
               /\ \A i \in 1..Len(b) :
                    /\ recs'[b[i]] = recs[b[i]]
                    /\ recs[b[i]].state = "draft" => recs'[b[i]].state = "draft"
               /\ moves' = moves ]_vars

\* the ledger refused the move of the second record of a call after the
\* first record, a draft, had passed every check: the first record is a
\* draft still and has no move
C19_Witness ==
    /\ call.op = "validate"
    /\ call.err = "LedgerPostingFailed"
    /\ Len(call.batch) = 2
    /\ call.at = 2
    /\ FirstFailing(recs[call.batch[1]], central_param) = NoError
    /\ recs[call.batch[1]].state = "draft"
    /\ recs[call.batch[2]].state = "draft"
    /\ MovesOf(call.batch[1]) = {}

====
